---------------------------- MODULE Spec2Model ----------------------------
(***************************************************************************)
(* Model of the arXiv LaTeX pipeline of sources/arxiv/from_latex:          *)
(*   hf-to-dolma.py   get_processed_ids, skip_file, read_file,             *)
(*                    interpolate_document,                                *)
(*                    get_article_subdirectories,                          *)
(*                    process_articles_from_gzipped_directory              *)
(*   parse_arxiv.py   parse_citations, extract_text_from_latex (its line   *)
(*                    normalisation)                                       *)
(*   to_hf.py         main, process_shard, package_and_upload_month        *)
(*                                                                         *)
(* Strings are modelled by what the code reads of them.                    *)
(*   - A text is a sequence of tokens [k, f]: k is the kind of the token   *)
(*     ("sp" a blank other than a newline, "nl" a newline, "txt" / "pct"   *)
(*     non-blank text / a percent sign, "begin" the \begin{document}       *)
(*     marker, "input" an \input{f} command) and f the file name an input  *)
(*     command carries (<<>> for the other kinds).                         *)
(*   - A path is the sequence of its "/"-separated components and a        *)
(*     component is the sequence of its "."-separated segments, so         *)
(*     "sec.1.tex" is <<"sec", "1", "tex">>.  Archive member names are     *)
(*     "always in shape ./article_id/..." (hf-to-dolma.py:142); the model  *)
(*     keeps the components after the leading "./".                        *)
(***************************************************************************)
EXTENDS Integers, Sequences, FiniteSets, TLC

VARIABLES
    tar,            \* the archive: sequence of members, in archive order
    processed_ids,  \* ids found in earlier output shards
    articles,       \* article ids still to be visited, sorted
    article_id,     \* the article being processed (<<>>: none)
    members,        \* members of the current article still to be visited
    skip,           \* exclusion set: names of the members interpolated
    yielded,        \* the (id, text) pairs yielded so far, with their root
    pc,             \* position of the running function
    contents,       \* argument of interpolate_document / text read
    full_contents,  \* text returned by interpolate_document
    log,            \* what interpolate_document logged, one entry per match
    latex,          \* argument of parse_citations
    parsed,         \* text returned by parse_citations
    rendered_text,  \* text rendered by latex_to_text, a sequence of characters
    returned_text,  \* text returned by extract_text_from_latex
    shard,          \* ids of the lines of the output shards found at start
    shard_ids,      \* to_hf.main: the shard ids read from the id file
    shard_pos,      \* to_hf.main: position of the loop in shard_ids
    current_month,  \* to_hf.main: the month being collected ("None": none)
    month_dirs,     \* to_hf.main: per month, the positions of the shards
                    \* whose .tex files lie in the directory of the month
    uploads         \* to_hf.main: the archives uploaded so far

\* The variables of extract_text_from_latex, of the scan of the output
\* shards and of to_hf.main, which the other functions leave alone
otherVars == <<rendered_text, returned_text, shard, shard_ids, shard_pos,
               current_month, month_dirs, uploads>>

vars == <<tar, processed_ids, articles, article_id, members, skip, yielded,
          pc, contents, full_contents, log, latex, parsed, otherVars>>

\* Nothing of extract_text_from_latex or to_hf.main has run and no output
\* shard exists
MainIdle ==
    /\ shard_ids = <<>>
    /\ shard_pos = 1
    /\ current_month = "None"
    /\ month_dirs = <<>>
    /\ uploads = <<>>
OthersIdle ==
    /\ rendered_text = <<>>
    /\ returned_text = <<>>
    /\ shard = {}
    /\ MainIdle

(***************************************************************************)
(* Bounds of the model.                                                    *)
(***************************************************************************)
MaxLen == 3        \* tokens in a text handed to interpolate_document
MaxMembers == 3    \* members of the archive handed to the generator
MaxBib == 3        \* \bibitem commands in a text handed to parse_citations
MaxCiteKeys == 2   \* keys in the \cite command of that text
MaxLabelLen == 4   \* tokens in the optional label of a \bibitem
MaxChars == 5      \* characters of a text handed to the line normalisation
MaxResumed == 2    \* members, besides the old-style article, of a resumed archive
MaxShards == 3     \* shard ids in the id file handed to to_hf.main

(***************************************************************************)
(* Texts.                                                                  *)
(***************************************************************************)
Tok(k) == [k |-> k, f |-> <<>>]
Input(f) == [k |-> "input", f |-> f]

Sp == Tok("sp")
Nl == Tok("nl")
Txt == Tok("txt")
Pct == Tok("pct")
Begin == Tok("begin")

\* [^\S%] : a blank that is no percent sign, i.e. any blank, newlines
\* included; the [^\S\n]* before it in the pattern matches a subset of it.
Blank(t) == t.k \in {"sp", "nl"}

\* r"\begin{document}" in contents
HasBegin(text) == \E i \in 1..Len(text) : text[i].k = "begin"

(***************************************************************************)
(* Paths: os.path.splitext, os.path.join, str.lower on an extension.       *)
(***************************************************************************)
\* os.path.splitext(p): <<root, ext>>, ext the last dot-segment of the last
\* component ("" when that component has no dot).
splitext(p) ==
    IF Len(p) = 0 \/ Len(p[Len(p)]) < 2
    THEN <<p, "">>
    ELSE LET last == p[Len(p)]
         IN  << [p EXCEPT ![Len(p)] = SubSeq(last, 1, Len(last) - 1)],
                last[Len(last)] >>

\* f"{base}.tex"
WithTex(p) == [p EXCEPT ![Len(p)] = Append(@, "tex")]

lower(ext) == IF ext = "TEX" THEN "tex" ELSE ext

\* base_filename, _ = os.path.splitext(m.group('filename'))
\* input_file_path = os.path.join(article_id, f"{base_filename}.tex")
InputFilePath(aid, filename) ==
    <<aid>> \o WithTex(splitext(filename)[1])

(***************************************************************************)
(* The archive.  A member is [name, content, ok]: ok is FALSE when         *)
(* tar.extractfile(...).read() or the decoding of its bytes raises.        *)
(***************************************************************************)
\* tar.getmember(name): index of the last member of that name, 0 for KeyError
GetMember(archive, name) ==
    LET hits == {i \in 1..Len(archive) : archive[i].name = name}
    IN  IF hits = {} THEN 0 ELSE CHOOSE i \in hits : \A j \in hits : j <= i

\* read_file with the except branch returning "" as its last line says
ReadFileSwallows(member) ==
    [raised |-> FALSE,
     contents |-> IF member.ok THEN member.content ELSE <<>>]
\* read_file: the except branch formats file_info.filename, an attribute
\* TarInfo does not have, so a failed read leaves read_file by AttributeError.
ReadFile(member) ==
    [raised |-> ~member.ok,
     contents |-> IF member.ok THEN member.content ELSE <<>>]

\* skip_file
skip_file(filename, to_skip) ==
    filename \in to_skip \/ splitext(filename)[1] \in to_skip

(***************************************************************************)
(* interpolate_document.                                                   *)
(***************************************************************************)
\* First token of the run of blanks that ends right before token i.
RECURSIVE BlankRunStart(_, _)
BlankRunStart(text, i) ==
    IF i > 1 /\ Blank(text[i - 1]) THEN BlankRunStart(text, i - 1) ELSE i

\* Where the match of the pattern that ends with the command at i starts:
\* the leftmost beginning of a line from which only blanks precede the
\* command; 0 when there is none (the command does not begin a line).
MatchStart(text, i) ==
    LET r == BlankRunStart(text, i)
        starts == {j \in r..i : j = 1 \/ text[j - 1].k = "nl"}
    IN  IF starts = {} THEN 0 ELSE CHOOSE j \in starts : \A h \in starts : j <= h

IsMatch(text, i) == text[i].k = "input" /\ MatchStart(text, i) > 0

\* The body of the try block for one match: what is appended to
\* full_contents, what is added to skip, and whether it raised.
TryInterpolate(archive, aid, tok) ==
    LET path == InputFilePath(aid, tok.f)
        idx == GetMember(archive, path)
        rd == IF idx = 0 THEN [raised |-> TRUE, contents |-> <<>>]
              ELSE ReadFile(archive[idx])
    IN  IF rd.raised
        THEN [raised |-> TRUE, path |-> path, put |-> <<tok>>, add |-> {}]
        ELSE [raised |-> FALSE, path |-> path, put |-> rd.contents,
              add |-> {archive[idx].name}]

RECURSIVE InterpolateFrom(_, _, _, _, _, _)
InterpolateFrom(text, archive, aid, i, offset, acc) ==
    IF i > Len(text)
    THEN [acc EXCEPT !.full = @ \o SubSeq(text, offset, Len(text))]
    ELSE IF ~IsMatch(text, i)
    THEN InterpolateFrom(text, archive, aid, i + 1, offset, acc)
    ELSE LET r == TryInterpolate(archive, aid, text[i])
         IN  InterpolateFrom(text, archive, aid, i + 1, i + 1,
                 [full |-> acc.full
                             \o SubSeq(text, offset, MatchStart(text, i) - 1)
                             \o r.put,
                  skip |-> acc.skip \cup r.add,
                  log  |-> Append(acc.log,
                                  [at |-> i, filename |-> text[i].f,
                                   path |-> r.path, failed |-> r.raised])])

\* interpolate_document made to expand the commands of the files it inlined
interpolate_rescanning(text, archive, to_skip, aid) ==
    LET once == InterpolateFrom(text, archive, aid, 1, 1,
                    [full |-> <<>>, skip |-> to_skip, log |-> <<>>])
        again == InterpolateFrom(once.full, archive, aid, 1, 1,
                    [full |-> <<>>, skip |-> once.skip, log |-> <<>>])
    IN  [full |-> again.full, skip |-> again.skip, log |-> once.log]
interpolate_document(text, archive, to_skip, aid) ==
    InterpolateFrom(text, archive, aid, 1, 1,
        [full |-> <<>>, skip |-> to_skip, log |-> <<>>])


(***************************************************************************)
(* Calls of interpolate_document on every short text, against an article   *)
(* directory whose files are present, absent or unreadable.                *)
(***************************************************************************)
Aid == <<"0704", "0001">>

Sec1 == << <<"sec1">> >>
Sec1Tex == << <<"sec1", "tex">> >>
SecDot1 == << <<"sec", "1">> >>
SecDot1Tex == << <<"sec", "1", "tex">> >>
Sec2 == << <<"sec2">> >>

MainName == <<Aid, <<"main", "tex">>>>
Sec1Name == <<Aid, <<"sec1", "tex">>>>
SecDot1Name == <<Aid, <<"sec", "1", "tex">>>>
SecName == <<Aid, <<"sec", "tex">>>>
Sec2Name == <<Aid, <<"sec2", "tex">>>>

\* The files \input commands may name, each with its own content; the
\* first one holds an \input command of its own, at the start of a line.
TargetFiles ==
    << [name |-> Sec1Name, content |-> <<Input(Sec2), Nl, Txt>>],
       [name |-> SecDot1Name, content |-> <<Txt>>],
       [name |-> SecName, content |-> <<Pct, Txt>>],
       [name |-> Sec2Name, content |-> <<Txt, Nl>>] >>

FileStates == {"absent", "ok", "unreadable"}

Present(m) == m.st # "absent"
ArchiveOf(st) ==
    LET all == [i \in 1..Len(TargetFiles) |->
                   [name |-> TargetFiles[i].name,
                    content |-> TargetFiles[i].content,
                    st |-> IF i \in DOMAIN st THEN st[i] ELSE "ok"]]
        kept == SelectSeq(all, Present)
    IN  [i \in 1..Len(kept) |->
            [name |-> kept[i].name, content |-> kept[i].content,
             ok |-> kept[i].st = "ok"]]

InterpArchives ==
    {ArchiveOf(st) : st \in {t \in [1..3 -> FileStates] : t[3] # "unreadable"}}

Alphabet == {Sp, Nl, Txt,
             Input(Sec1), Input(Sec1Tex), Input(SecDot1), Input(SecDot1Tex)}
Texts(n) == UNION {[1..k -> Alphabet] : k \in 0..n}

InterpInit ==
    /\ tar \in InterpArchives
    /\ contents \in Texts(MaxLen)
    /\ skip \in {{}, {MainName}}
    /\ article_id = Aid
    /\ pc = "interpolate"
    /\ full_contents = <<>>
    /\ log = <<>>
    /\ processed_ids = {}
    /\ articles = <<>>
    /\ members = <<>>
    /\ yielded = <<>>
    /\ latex = <<>>
    /\ parsed = <<>>
    /\ OthersIdle

\* content, skip = interpolate_document(contents, tar, skip, article_id)
Interpolate ==
    /\ pc = "interpolate"
    /\ LET r == interpolate_document(contents, tar, skip, article_id)
       IN  /\ full_contents' = r.full
           /\ skip' = r.skip
           /\ log' = r.log
    /\ pc' = "returned"
    /\ UNCHANGED <<tar, processed_ids, articles, article_id, members,
                   yielded, contents, latex, parsed, otherVars>>

InterpNext == Interpolate

SpecInterp == InterpInit /\ [][InterpNext]_vars

(***************************************************************************)
(* Properties of interpolate_document (checked under SpecInterp).          *)
(***************************************************************************)
Returned == pc = "returned"

Target(i) == InputFilePath(article_id, contents[i].f)
Missing(path) == \A m \in 1..Len(tar) : tar[m].name # path
Unreadable(path) == \E m \in 1..Len(tar) : tar[m].name = path /\ ~tar[m].ok
Resolvable(path) == \E m \in 1..Len(tar) : tar[m].name = path /\ tar[m].ok
RawContent(path) == tar[CHOOSE m \in 1..Len(tar) : tar[m].name = path].content

\* The commands the pattern matches, and the blanks a later match takes in.
Matched == {i \in 1..Len(contents) : IsMatch(contents, i)}
TakenIn(i) == \E j \in Matched : MatchStart(contents, j) <= i /\ i < j

\* What stands in the output for token i of the input.
ExpectedPiece(i) ==
    IF i \in Matched
    THEN IF Resolvable(Target(i)) THEN RawContent(Target(i))
         ELSE <<contents[i]>>
    ELSE IF TakenIn(i) THEN <<>> ELSE <<contents[i]>>

RECURSIVE ExpectedUpTo(_)
ExpectedUpTo(n) ==
    IF n = 0 THEN <<>> ELSE ExpectedUpTo(n - 1) \o ExpectedPiece(n)

\* C3 (as claimed): when the target of every \input command of the text is
\* missing from the archive, the text returned is identical to the text
\* given, blanks before the commands included, and no target is in skip.
C3_MissingTargetsIdentity ==
    (Returned /\ \A i \in 1..Len(contents) :
                    contents[i].k = "input" => Missing(Target(i)))
        => /\ full_contents = contents
           /\ \A i \in 1..Len(contents) :
                  contents[i].k = "input" => Target(i) \notin skip

\* C4: a matched command whose target is in the archive but cannot be read
\* is reported as failed, stands itself in the output at its place, and its
\* target is not in skip.
C4_ReadFailureKeepsDirective ==
    Returned =>
        \A k \in 1..Len(log) :
            Unreadable(log[k].path) =>
                LET at == log[k].at
                    out == Len(ExpectedUpTo(at - 1)) + 1
                IN  /\ log[k].failed
                    /\ log[k].path \notin skip
                    /\ out <= Len(full_contents)
                    /\ full_contents[out] = contents[at]

C4_Witness ==
    /\ Returned
    /\ \E k \in 1..Len(log) : Unreadable(log[k].path)
    /\ \E k \in 1..Len(log) : ~log[k].failed

C7_ExtensionEquivalence ==
    Returned =>
        \A k, l \in 1..Len(log) :
            (/\ log[l].filename = WithTex(log[k].filename)
             /\ Resolvable(InputFilePath(article_id, log[l].filename))) =>
                /\ log[k].path = log[l].path
                /\ log[k].failed = log[l].failed
                /\ ~log[k].failed =>
                       /\ log[k].path \in skip
                       /\ skip_file(log[k].path, skip)

(***************************************************************************)
(* process_articles_from_gzipped_directory.                                *)
(***************************************************************************)
\* os.path.relpath(info.name, article_id): the components below the article
\* (<<>> stands for ".")
relpath(name) == Tail(name)

\* The first test of the loop body: a .tex file at the root of the article.
IsRootTex(name) ==
    /\ lower(splitext(relpath(name))[2]) = "tex"
    /\ Len(relpath(name)) <= 1
\* The elif: the article itself is a .tex file.
IsTopLevelTex(name) ==
    /\ lower(splitext(name)[2]) = "tex"
    /\ relpath(name) = <<>>

\* The name of the file itself, without its extension.
RootFileStem(name) == splitext(name)[1][Len(name)]
\* The id taken from the root file instead of the article
DocumentIdOfRoot(name) == RootFileStem(name)
\* The id yielded with a document: info.name.split("/")[1], cut by its last
\* four characters in the elif branch.
DocumentId(name) ==
    IF IsRootTex(name) THEN name[1]
    ELSE SubSeq(name[1], 1, Len(name[1]) - 1)

\* get_article_subdirectories, then sorted(articles.items())
ArticleOrder == << <<"0704", "0001">>, <<"0704", "0002">>,
                   <<"0705", "0001", "tex">>, <<"hep-th0001001">> >>
MembersOf(archive, aid) ==
    LET In(m) == m.name[1] = aid IN SelectSeq(archive, In)
SortedArticles(archive) ==
    LET Has(aid) == \E i \in 1..Len(archive) : archive[i].name[1] = aid
    IN  SelectSeq(ArticleOrder, Has)

A1 == ArticleOrder[1]
A2 == ArticleOrder[2]
TopTex == ArticleOrder[3]

WithMarker == <<Begin, Nl, Txt>>
WithInput == <<Begin, Nl, Input(Sec1)>>

\* The files an archive is made of, and the contents each may have.  No
\* file includes itself or a file that includes it.
MemberNames ==
    {<<A1, <<"main", "tex">>>>, <<A1, <<"sec1", "tex">>>>,
     <<A1, <<"sub">>, <<"sec1", "tex">>>>, <<A2, <<"paper", "TEX">>>>,
     <<TopTex>>}
ContentsOf(name) ==
    IF name = <<A1, <<"main", "tex">>>> THEN {<<Txt>>, WithMarker, WithInput}
    ELSE IF name = <<A1, <<"sec1", "tex">>>> THEN {<<Txt>>, WithMarker}
    ELSE IF name = <<TopTex>> THEN {WithInput}
    ELSE {WithMarker}

\* Archives of at most MaxMembers members with distinct names, in any order,
\* at most one of them unreadable.
ArchivesOver(names) ==
    {[i \in 1..Len(names) |->
         [name |-> names[i], content |-> texts[i], ok |-> i # bad]] :
     texts \in {t \in [1..Len(names) -> {<<Txt>>, WithMarker, WithInput}] :
                   \A i \in 1..Len(names) : t[i] \in ContentsOf(names[i])},
     bad \in 0..Len(names)}
ProcessArchives ==
    UNION {ArchivesOver(names) :
              names \in UNION {{s \in [1..n -> MemberNames] :
                                   \A i, j \in 1..n : i # j => s[i] # s[j]} :
                               n \in 0..MaxMembers}}

Init ==
    /\ tar \in ProcessArchives
    /\ processed_ids \in {{}, {A2}}
    /\ articles = SortedArticles(tar)
    /\ article_id = <<>>
    /\ members = <<>>
    /\ skip = {}
    /\ yielded = <<>>
    /\ pc = "articles"
    /\ contents = <<>>
    /\ full_contents = <<>>
    /\ log = <<>>
    /\ latex = <<>>
    /\ parsed = <<>>
    /\ OthersIdle

\* for article_id, members in sorted(articles.items()): ... skip = set()
NextArticle ==
    /\ pc = "articles"
    /\ articles # <<>>
    /\ Head(articles) \notin processed_ids
    /\ article_id' = Head(articles)
    /\ articles' = Tail(articles)
    /\ members' = MembersOf(tar, Head(articles))
    /\ skip' = {}
    /\ pc' = "members"
    /\ UNCHANGED <<tar, processed_ids, yielded, contents, full_contents,
                   log, latex, parsed, otherVars>>

\* if raw_article_id in processed_ids: continue
SkipProcessed ==
    /\ pc = "articles"
    /\ articles # <<>>
    /\ Head(articles) \in processed_ids
    /\ articles' = Tail(articles)
    /\ UNCHANGED <<tar, processed_ids, article_id, members, skip, yielded,
                   pc, contents, full_contents, log, latex, parsed, otherVars>>

\* if skip_file(info.name, skip): continue
SkipInterpolated ==
    /\ pc = "members"
    /\ members # <<>>
    /\ skip_file(Head(members).name, skip)
    /\ members' = Tail(members)
    /\ UNCHANGED <<tar, processed_ids, articles, article_id, skip, yielded,
                   pc, contents, full_contents, log, latex, parsed, otherVars>>

\* neither the if nor the elif holds of the member
NotADocument ==
    /\ pc = "members"
    /\ members # <<>>
    /\ ~skip_file(Head(members).name, skip)
    /\ ~IsRootTex(Head(members).name)
    /\ ~IsTopLevelTex(Head(members).name)
    /\ members' = Tail(members)
    /\ UNCHANGED <<tar, processed_ids, articles, article_id, skip, yielded,
                   pc, contents, full_contents, log, latex, parsed, otherVars>>

Candidate(info) ==
    /\ ~skip_file(info.name, skip)
    /\ IsRootTex(info.name) \/ IsTopLevelTex(info.name)

\* contents = read_file(tar, info, article_id) raises: nothing in the
\* generator catches it.
ReadRaises ==
    /\ pc = "members"
    /\ members # <<>>
    /\ Candidate(Head(members))
    /\ ReadFile(Head(members)).raised
    /\ pc' = "raised"
    /\ UNCHANGED <<tar, processed_ids, articles, article_id, members, skip,
                   yielded, contents, full_contents, log, latex, parsed,
                   otherVars>>

\* the file is read and does not hold \begin{document}
NoMarker ==
    /\ pc = "members"
    /\ members # <<>>
    /\ Candidate(Head(members))
    /\ ~ReadFile(Head(members)).raised
    /\ ~HasBegin(ReadFile(Head(members)).contents)
    /\ contents' = ReadFile(Head(members)).contents
    /\ members' = Tail(members)
    /\ UNCHANGED <<tar, processed_ids, articles, article_id, skip, yielded,
                   pc, full_contents, log, latex, parsed, otherVars>>

\* content, skip = interpolate_document(...); yield id, content
YieldDocument ==
    /\ pc = "members"
    /\ members # <<>>
    /\ Candidate(Head(members))
    /\ ~ReadFile(Head(members)).raised
    /\ HasBegin(ReadFile(Head(members)).contents)
    /\ LET info == Head(members)
           text == ReadFile(info).contents
           r == interpolate_document(text, tar, skip, article_id)
       IN  /\ contents' = text
           /\ full_contents' = r.full
           /\ log' = r.log
           /\ skip' = r.skip
           /\ yielded' = Append(yielded,
                  [id |-> DocumentId(info.name), text |-> r.full,
                   root |-> info.name,
                   inlined |-> {r.log[k].path :
                                   k \in {h \in 1..Len(r.log) :
                                             ~r.log[h].failed}}])
    /\ members' = Tail(members)
    /\ UNCHANGED <<tar, processed_ids, articles, article_id, pc, latex,
                   parsed, otherVars>>

\* the members of the article are exhausted
EndOfArticle ==
    /\ pc = "members"
    /\ members = <<>>
    /\ pc' = "articles"
    /\ UNCHANGED <<tar, processed_ids, articles, article_id, members, skip,
                   yielded, contents, full_contents, log, latex, parsed,
                   otherVars>>

\* the articles are exhausted: os.remove(main_archive_path)
Finish ==
    /\ pc = "articles"
    /\ articles = <<>>
    /\ pc' = "done"
    /\ UNCHANGED <<tar, processed_ids, articles, article_id, members, skip,
                   yielded, contents, full_contents, log, latex, parsed,
                   otherVars>>

Next ==
    \/ NextArticle
    \/ SkipProcessed
    \/ SkipInterpolated
    \/ NotADocument
    \/ ReadRaises
    \/ NoMarker
    \/ YieldDocument
    \/ EndOfArticle
    \/ Finish

Spec == Init /\ [][Next]_vars


(***************************************************************************)
(* __main__: the ids of the output shards of an earlier run are collected  *)
(* by get_processed_ids, then the archive is processed.                    *)
(***************************************************************************)
\* json.loads(line)["id"].split("/")[-1].split('.')[0], for every line of
\* every shard
get_processed_ids(ids) == {<<id[1]>> : id \in ids}

OldStyle == ArticleOrder[4]

\* An archive of the generator, with or without an article at its end
\* whose name holds no dot
ResumeArchives ==
    LET short == UNION {ArchivesOver(names) :
                    names \in UNION {{s \in [1..n -> MemberNames] :
                                         \A i, j \in 1..n : i # j => s[i] # s[j]} :
                                     n \in 0..MaxResumed}}
        old == [name |-> <<OldStyle, <<"main", "tex">>>>,
                content |-> WithMarker, ok |-> TRUE]
    IN  short \cup {a \o <<old>> : a \in short}

\* The ids an earlier run over the archive may have written: those of its
\* articles A1 and OldStyle
ShardIds(archive) ==
    {id \in {A1, OldStyle} :
        \E i \in 1..Len(archive) : archive[i].name[1] = id}

ResumeInit ==
    /\ tar \in ResumeArchives
    /\ shard \in SUBSET ShardIds(tar)
    /\ processed_ids = {}
    /\ articles = SortedArticles(tar)
    /\ article_id = <<>>
    /\ members = <<>>
    /\ skip = {}
    /\ yielded = <<>>
    /\ pc = "resume"
    /\ contents = <<>>
    /\ full_contents = <<>>
    /\ log = <<>>
    /\ latex = <<>>
    /\ parsed = <<>>
    /\ rendered_text = <<>>
    /\ returned_text = <<>>
    /\ MainIdle

\* processed_ids = get_processed_ids(output_path, shard_filename_pattern)
GetProcessedIds ==
    /\ pc = "resume"
    /\ processed_ids' = get_processed_ids(shard)
    /\ pc' = "articles"
    /\ UNCHANGED <<tar, articles, article_id, members, skip, yielded,
                   contents, full_contents, log, latex, parsed, otherVars>>

ResumeNext ==
    \/ GetProcessedIds
    \/ NextArticle
    \/ SkipProcessed
    \/ SkipInterpolated
    \/ NotADocument
    \/ ReadRaises
    \/ NoMarker
    \/ YieldDocument
    \/ EndOfArticle
    \/ Finish

SpecResume == ResumeInit /\ [][ResumeNext]_vars

(***************************************************************************)
(* Properties of process_articles_from_gzipped_directory (under Spec).      *)
(***************************************************************************)
Yields == 1..Len(yielded)

\* C1 (as claimed): a file inlined into a root file of an article is never
\* also yielded as a document of that article, whatever the order in which
\* the archive lists the files.
C1_InlinedNeverYielded ==
    \A i, j \in Yields : yielded[i].root \notin yielded[j].inlined

\* C2 (as claimed): an article yields at most one (id, text) pair (of
\* several root files none of which was inlined into another, one is chosen),
\* and none when no .tex file at its root holds the marker.
C2_AtMostOnePerArticle ==
    /\ \A i, j \in Yields :
           (/\ yielded[i].root[1] = yielded[j].root[1]
            /\ yielded[i].root \notin yielded[j].inlined
            /\ yielded[j].root \notin yielded[i].inlined) => i = j
    /\ \A i \in Yields :
           \E m \in 1..Len(tar) :
               /\ tar[m].name[1] = yielded[i].root[1]
               /\ IsRootTex(tar[m].name) \/ IsTopLevelTex(tar[m].name)
               /\ HasBegin(tar[m].content)

\* C6 (as claimed): the id yielded with a document is the name of its root
\* file without the extension.
C6_IdIsRootFileStem ==
    \A i \in Yields : yielded[i].id = RootFileStem(yielded[i].root)

\* C6 (amended): the id yielded with a document is the name of the article:
\* the name of the article's directory when the root file lies in one, and
\* the file's name without its extension when the article is a single .tex
\* file at the top of the archive.
C6_IdIsArticleName ==
    \A i \in Yields :
        LET root == yielded[i].root
        IN  IF Len(root) > 1
            THEN yielded[i].id = root[1]
            ELSE yielded[i].id = RootFileStem(root)

C6_Witness ==
    \E i, j \in Yields :
        /\ Len(yielded[i].root) = 2
        /\ yielded[i].id = A1
        /\ RootFileStem(yielded[i].root) = <<"main">>
        /\ Len(yielded[j].root) = 1
        /\ yielded[j].id = <<"0705", "0001">>


\* C12: once the shards are scanned, every id found in them is in
\* processed_ids in the form the generator compares article names with, and
\* no document is yielded under an id the shards already hold.
C12_WrittenIdsSkipped ==
    pc # "resume" =>
        /\ \A id \in shard : id \in processed_ids
        /\ \A k \in Yields : yielded[k].id \notin shard

(***************************************************************************)
(* parse_citations.  The text is a sequence of items: \bibitem[label]{key}, *)
(* \cite...{key,key} and, once rewritten, plain text.  Keys, labels and    *)
(* rendered text are strings, modelled as sequences of tokens: a token is  *)
(* a word, a blank " ", a newline, a bracket or a run of four digits.      *)
(***************************************************************************)
Bibitem(label, key) ==
    [k |-> "bibitem", type |-> "", label |-> label, keys |-> <<key>>,
     s |-> <<>>]
Cite(type, keys) ==
    [k |-> "cite", type |-> type, label |-> <<>>, keys |-> keys, s |-> <<>>]
Text(str) ==
    [k |-> "text", type |-> "", label |-> <<>>, keys |-> <<>>, s |-> str]

\* str.strip(chars)
RECURSIVE StripLeft(_, _)
StripLeft(str, chars) ==
    IF str # <<>> /\ Head(str) \in chars THEN StripLeft(Tail(str), chars)
    ELSE str
RECURSIVE StripRight(_, _)
StripRight(str, chars) ==
    IF str # <<>> /\ str[Len(str)] \in chars
    THEN StripRight(SubSeq(str, 1, Len(str) - 1), chars)
    ELSE str
Strip(str, chars) == StripRight(StripLeft(str, chars), chars)

Whitespace == {" ", "\n"}

\* str.splitlines(): a final newline opens no further line
RECURSIVE SplitLines(_, _, _)
SplitLines(str, i, line) ==
    IF i > Len(str) THEN (IF line = <<>> THEN <<>> ELSE <<line>>)
    ELSE IF str[i] = "\n" THEN <<line>> \o SplitLines(str, i + 1, <<>>)
    ELSE SplitLines(str, i + 1, Append(line, str[i]))

\* " ".join(lines) after each line is stripped
RECURSIVE JoinStripped(_)
JoinStripped(lines) ==
    IF lines = <<>> THEN <<>>
    ELSE IF Len(lines) = 1 THEN Strip(lines[1], Whitespace)
    ELSE Strip(lines[1], Whitespace) \o <<" ">> \o JoinStripped(Tail(lines))

\* label = " ".join([l.strip() for l in label.splitlines()]).strip("{}")
NormalizeLabel(label) ==
    Strip(JoinStripped(SplitLines(label, 1, <<>>)), {"{", "}"})

Years == {"2020"}

\* The search with the opening parenthesis made optional, like the closing
LabelSearchOptionalParen(label) ==
    LET at == {i \in 2..Len(label) : label[i] \in Years}
    IN  IF at = {} THEN [found |-> FALSE, authors |-> <<>>, year |-> ""]
        ELSE LET i == CHOOSE j \in at : \A h \in at : h <= j
             IN  [found |-> TRUE,
                  authors |-> StripRight(SubSeq(label, 1, i - 1), {"("}),
                  year |-> label[i]]
\* re.search(r"(.+)\((\d{4})\)?(.+)?", label): the first group is greedy,
\* so it ends before the last "(" that four digits follow and that at least
\* one character precedes.
LabelSearch(label) ==
    LET at == {i \in 2..(Len(label) - 1) :
                  label[i] = "(" /\ label[i + 1] \in Years}
    IN  IF at = {} THEN [found |-> FALSE, authors |-> <<>>, year |-> ""]
        ELSE LET i == CHOOSE j \in at : \A h \in at : h <= j
             IN  [found |-> TRUE, authors |-> SubSeq(label, 1, i - 1),
                  year |-> label[i + 1]]

\* The body of the loop over enumerate(bibitems.items()): the label of the
\* n-th key (n from 0) whose table entry is `label` (<<>> for None).
LabelOf(n, label) ==
    IF label = <<>> THEN <<ToString(n + 1)>>
    ELSE LET m == LabelSearch(NormalizeLabel(label))
         IN  IF m.found
             THEN IF m.authors # <<>>
                  THEN Strip(m.authors, Whitespace)
                           \o <<", ", IF m.year # "" THEN m.year ELSE "n.d.">>
                  ELSE <<ToString(n + 1)>>
             ELSE <<ToString(n + 1)>>

\* matches = re.findall(bibitem_pattern, latex): (label, key) pairs, the
\* label "" when the command has none
findall(text) ==
    LET IsBib(item) == item.k = "bibitem"
        bibs == SelectSeq(text, IsBib)
    IN  [i \in 1..Len(bibs) |-> [label |-> bibs[i].label, key |-> bibs[i].keys[1]]]

\* A dict that puts a key assigned again at the end of its order
RECURSIVE DictOfReinserting(_, _)
DictOfReinserting(matches, n) ==
    IF n = 0 THEN [order |-> <<>>, val |-> <<>>]
    ELSE LET d == DictOfReinserting(matches, n - 1)
             key == matches[n].key
             Other(k) == k # key
         IN  [order |-> Append(SelectSeq(d.order, Other), key),
              val |-> [k \in DOMAIN d.val \cup {key} |->
                          IF k = key THEN matches[n].label ELSE d.val[k]]]
\* bibitems = {key: label if label else None for label, key in matches},
\* over the first n matches: a dict keeps the order of first insertion and
\* the value assigned last.  val[key] = <<>> stands for None.
RECURSIVE DictOf(_, _)
DictOf(matches, n) ==
    IF n = 0 THEN [order |-> <<>>, val |-> <<>>]
    ELSE LET d == DictOf(matches, n - 1)
             key == matches[n].key
         IN  [order |-> IF key \in DOMAIN d.val THEN d.order
                        ELSE Append(d.order, key),
              val |-> [k \in DOMAIN d.val \cup {key} |->
                          IF k = key THEN matches[n].label ELSE d.val[k]]]

\* bibitems after the loop over enumerate(bibitems.items())
Bibitems(text) ==
    LET d == DictOf(findall(text), Len(findall(text)))
    IN  [key \in DOMAIN d.val |->
            LabelOf((CHOOSE n \in 1..Len(d.order) : d.order[n] = key) - 1,
                    d.val[key])]

\* ', '.join(citations)
RECURSIVE Join(_)
Join(strs) ==
    IF strs = <<>> THEN <<>>
    ELSE IF Len(strs) = 1 THEN strs[1]
    ELSE strs[1] \o <<", ">> \o Join(Tail(strs))

\* replace_cite made to render the keys it finds and drop the others
replace_cite_partial(item, bibitems) ==
    LET keys == [i \in 1..Len(item.keys) |-> Strip(item.keys[i], Whitespace)]
        InTable(key) == key \in DOMAIN bibitems
        known == SelectSeq(keys, InTable)
        citations == [i \in 1..Len(known) |-> bibitems[known[i]]]
    IN  IF known = <<>> THEN item
        ELSE IF item.type \in {"citet", "citealt", "citealp"}
        THEN Text(Join(citations))
        ELSE Text(<<"[">> \o Join(citations) \o <<"]">>)
\* replace_cite
replace_cite(item, bibitems) ==
    LET keys == [i \in 1..Len(item.keys) |-> Strip(item.keys[i], Whitespace)]
    IN  IF ~ \A i \in 1..Len(keys) : keys[i] \in DOMAIN bibitems
        THEN item
        ELSE LET citations == [i \in 1..Len(keys) |-> bibitems[keys[i]]]
             IN  IF item.type \in {"citet", "citealt", "citealp"}
                 THEN Text(Join(citations))
                 ELSE Text(<<"[">> \o Join(citations) \o <<"]">>)

\* parse_citations: the table, then re.sub over the \cite commands, then
\* re.sub over the \bibitem commands
parse_citations(text) ==
    LET bibitems == Bibitems(text)
        cited == [i \in 1..Len(text) |->
                     IF text[i].k = "cite" THEN replace_cite(text[i], bibitems)
                     ELSE text[i]]
    IN  [i \in 1..Len(cited) |->
            IF cited[i].k = "bibitem"
            THEN LET key == cited[i].keys[1]
                 IN  Text(<<"[">>
                          \o (IF key \in DOMAIN bibitems THEN bibitems[key]
                              ELSE key)
                          \o <<"]">>)
            ELSE cited[i]]

(***************************************************************************)
(* Calls of parse_citations: texts made of \bibitem commands followed by   *)
(* one \cite command.                                                      *)
(***************************************************************************)
KeyA == <<"a">>
KeyB == <<"b">>
KeyC == <<"c">>
Natbib == <<"Smith", "(", "2020", ")", "Smith">>

BibChoices ==
    {Bibitem(label, key) : label \in {<<>>, Natbib}, key \in {KeyA, KeyB, KeyC}}
BibLists == UNION {[1..n -> BibChoices] : n \in 0..MaxBib}
\* the definitions a \cite command is tried against: none, a, b or both
CitedLists ==
    {bibs \in BibLists :
        /\ Len(bibs) <= 2
        /\ \A i \in 1..Len(bibs) : bibs[i].keys[1] \in {KeyA, KeyB}}

CiteTypes == {"cite", "citep", "citet", "citealt", "citealp"}
\* keys as written between the commas: "a", " b" and the undefined "d"
RawKeys == {KeyA, <<" ", "b">>, <<"d">>}
Cites ==
    {Cite(type, keys) :
        type \in CiteTypes,
        keys \in UNION {[1..n -> RawKeys] : n \in 1..MaxCiteKeys}}

LabelTokens == {"Smith", " ", "(", ")", "2020", "{", "\n"}
RawLabels == UNION {[1..n -> LabelTokens] : n \in 1..MaxLabelLen}

\* The texts: any list of definitions before one command, any command after
\* a short list of definitions, any raw label on a second definition.
Latexes ==
    {bibs \o <<Cite("cite", <<KeyA, KeyB>>)>> : bibs \in BibLists}
        \cup {bibs \o <<c>> : bibs \in CitedLists, c \in Cites}
        \cup {<<Bibitem(<<>>, KeyA), Bibitem(label, KeyB),
                Cite("citep", <<KeyB>>)>> : label \in RawLabels}

CiteInit ==
    /\ latex \in Latexes
    /\ parsed = <<>>
    /\ pc = "parse"
    /\ tar = <<>>
    /\ processed_ids = {}
    /\ articles = <<>>
    /\ article_id = <<>>
    /\ members = <<>>
    /\ skip = {}
    /\ yielded = <<>>
    /\ contents = <<>>
    /\ full_contents = <<>>
    /\ log = <<>>
    /\ OthersIdle

\* latex = parse_citations(latex)
ParseCitations ==
    /\ pc = "parse"
    /\ parsed' = parse_citations(latex)
    /\ pc' = "parsed"
    /\ UNCHANGED <<tar, processed_ids, articles, article_id, members, skip,
                   yielded, contents, full_contents, log, latex, otherVars>>

CiteNext == ParseCitations

SpecCite == CiteInit /\ [][CiteNext]_vars

(***************************************************************************)
(* Properties of parse_citations (checked under SpecCite), stated on the   *)
(* text it is given and the text it returns.                               *)
(***************************************************************************)
Parsed == pc = "parsed"

BibPositions == {q \in 1..Len(latex) : latex[q].k = "bibitem"}
CitePositions == {p \in 1..Len(latex) : latex[p].k = "cite"}
KeyAt(q) == latex[q].keys[1]
DefinedKeys == {KeyAt(q) : q \in BibPositions}
FirstAt(key) ==
    CHOOSE q \in BibPositions :
        KeyAt(q) = key /\ \A h \in BibPositions : KeyAt(h) = key => q <= h
LastAt(key) ==
    CHOOSE q \in BibPositions :
        KeyAt(q) = key /\ \A h \in BibPositions : KeyAt(h) = key => h <= q
\* Position of a key among the distinct keys, in the order they first appear
Ordinal(key) ==
    Cardinality({k \in DefinedKeys : FirstAt(k) < FirstAt(key)}) + 1
\* The label the returned text shows in place of the definition at q
Shown(q) == SubSeq(parsed[q].s, 2, Len(parsed[q].s) - 1)

RECURSIVE LabelsJoined(_)
LabelsJoined(keys) ==
    IF Len(keys) = 1 THEN Shown(FirstAt(keys[1]))
    ELSE LabelsJoined(SubSeq(keys, 1, Len(keys) - 1))
             \o <<", ">> \o Shown(FirstAt(keys[Len(keys)]))

\* C8: a \cite command all of whose keys (blanks around them dropped) are
\* defined becomes the labels of its keys joined by ", ", bare for citet,
\* citealt and citealp and inside one pair of square brackets for the other
\* variants; when a key is undefined the command is returned as it was.
C8_CiteAllOrNothing ==
    Parsed =>
        \A p \in CitePositions :
            LET keys == [i \in 1..Len(latex[p].keys) |->
                            Strip(latex[p].keys[i], Whitespace)]
            IN  IF \A i \in 1..Len(keys) : keys[i] \in DefinedKeys
                THEN parsed[p] =
                         Text(IF latex[p].type \in {"citet", "citealt", "citealp"}
                              THEN LabelsJoined(keys)
                              ELSE <<"[">> \o LabelsJoined(keys) \o <<"]">>)
                ELSE parsed[p] = latex[p]

C8_Witness ==
    /\ Parsed
    /\ Len(latex) = 3
    /\ \E p \in CitePositions :
           /\ latex[p].type = "citep"
           /\ latex[p].keys = <<KeyA, <<" ", "b">>>>
           /\ latex[1].label = <<>> /\ latex[2].label = <<>>
           /\ parsed[p] = Text(<<"[", "1", ", ", "2", "]">>)

\* C9: a definition is replaced by its label in brackets, the same label at
\* every definition of one key; a key whose last definition has no raw label
\* gets the position of the key among the distinct keys in the order of their
\* first appearance, counted from 1, whatever was defined again later.
C9_OrdinalLabels ==
    Parsed =>
        \A q \in BibPositions :
            /\ parsed[q].k = "text"
            /\ Len(parsed[q].s) >= 3
            /\ parsed[q].s[1] = "[" /\ parsed[q].s[Len(parsed[q].s)] = "]"
            /\ parsed[q] = parsed[FirstAt(KeyAt(q))]
            /\ latex[LastAt(KeyAt(q))].label = <<>> =>
                   Shown(q) = <<ToString(Ordinal(KeyAt(q)))>>

C9_Witness ==
    /\ Parsed
    /\ Len(latex) = 4
    /\ KeyAt(1) = KeyA /\ KeyAt(2) = KeyB /\ KeyAt(3) = KeyA
    /\ latex[1].label # <<>> /\ latex[3].label = <<>>
    /\ Shown(1) = <<"1">> /\ Shown(2) = <<"2">> /\ Shown(3) = <<"1">>

\* An author list: words and blanks, one word at least
AuthorList(str) ==
    /\ \A i \in 1..Len(str) : str[i] \in {"Smith", " "}
    /\ \E i \in 1..Len(str) : str[i] = "Smith"

\* C10 (as claimed): a raw label made of an author list followed by a
\* 4-digit year, in parentheses or not, yields "<authors>, <year>"; a raw
\* label without a year falls back to the ordinal of the key.
C10_AuthorYearAnyForm ==
    Parsed =>
        \A q \in BibPositions :
            LET raw == latex[LastAt(KeyAt(q))].label
                n == Len(raw)
            IN  /\ \A a \in 1..n :
                       (/\ AuthorList(SubSeq(raw, 1, a))
                        /\ SubSeq(raw, a + 1, n) \in
                               {<<y>> : y \in Years}
                                   \cup {<<"(", y, ")">> : y \in Years}) =>
                           Shown(q) = Strip(SubSeq(raw, 1, a), Whitespace)
                                          \o <<", ", raw[n - (IF raw[n] = ")" THEN 1 ELSE 0)]>>
                /\ (raw # <<>> /\ \A i \in 1..n : raw[i] \notin Years) =>
                       Shown(q) = <<ToString(Ordinal(KeyAt(q)))>>

\* C10 (amended): with the raw label normalised (lines joined by a blank,
\* braces at both ends dropped), if it holds an opening parenthesis that
\* four digits follow and at least one character precedes, the label is the
\* text before the last such parenthesis, blanks at its ends dropped, then
\* ", " and the four digits; the closing parenthesis may be missing, the
\* opening one may not, and "n.d." is never produced.  Any other raw label
\* falls back to the ordinal of the key.
C10_ParenthesisedYear ==
    Parsed =>
        \A q \in BibPositions :
            LET raw == latex[LastAt(KeyAt(q))].label
                label == NormalizeLabel(raw)
                at == {i \in 2..(Len(label) - 1) :
                          label[i] = "(" /\ label[i + 1] \in Years}
            IN  raw # <<>> =>
                    /\ \A i \in 1..Len(Shown(q)) : Shown(q)[i] # "n.d."
                    /\ at = {} => Shown(q) = <<ToString(Ordinal(KeyAt(q)))>>
                    /\ \A i \in at :
                           (\A j \in at : j <= i) =>
                               Shown(q) = Strip(SubSeq(label, 1, i - 1), Whitespace)
                                              \o <<", ", label[i + 1]>>

C10_Witness ==
    /\ Parsed
    /\ \E q \in BibPositions :
           /\ latex[q].label = <<"Smith", "(", "2020", ")">>
           /\ Shown(q) = <<"Smith", ", ", "2020">>


(***************************************************************************)
(* extract_text_from_latex, lines 146-157: the normalisation of the lines  *)
(* of the rendered text.  A text is here the sequence of its characters;   *)
(* "a" stands for any character of a word, "1" for any digit.              *)
(***************************************************************************)
LineChars == {"a", " ", "\n", "\\", "[", "1", "]"}

\* s.split("\n"): the pieces between the newlines, empty pieces included
RECURSIVE SplitNl(_, _, _)
SplitNl(s, i, piece) ==
    IF i > Len(s) THEN <<piece>>
    ELSE IF s[i] = "\n" THEN <<piece>> \o SplitNl(s, i + 1, <<>>)
    ELSE SplitNl(s, i + 1, Append(piece, s[i]))

\* s.splitlines()
splitlines(s) == SplitLines(s, 1, <<>>)

\* "\n".join(lines)
RECURSIVE JoinNl(_)
JoinNl(lines) ==
    IF lines = <<>> THEN <<>>
    ELSE IF Len(lines) = 1 THEN lines[1]
    ELSE lines[1] \o <<"\n">> \o JoinNl(Tail(lines))

\* len(l.split()): the number of maximal runs of non-blank characters
TokenCount(l) ==
    Cardinality({i \in 1..Len(l) :
                    l[i] # " " /\ (i = 1 \/ l[i - 1] = " ")})

\* re.match(r"^\[[0-9]+\]$", l)
IsCitationMarker(l) ==
    /\ Len(l) >= 3
    /\ l[1] = "[" /\ l[Len(l)] = "]"
    /\ \A i \in 2..(Len(l) - 1) : l[i] = "1"

\* The filter without its last alternative
KeepLineWithoutMarker(l) ==
    \/ TokenCount(l) > 1
    \/ l = <<>>
    \/ (l # <<>> /\ l[1] = "\\")
\* The condition of the list comprehension at lines 149-153
KeepLine(l) ==
    \/ TokenCount(l) > 1
    \/ l = <<>>
    \/ (l # <<>> /\ l[1] = "\\")
    \/ IsCitationMarker(l)

\* re.sub("\n\n+", "\n\n", text): of a run of newlines the first two stay
RECURSIVE CollapseNewlines(_, _)
CollapseNewlines(s, i) ==
    IF i > Len(s) THEN <<>>
    ELSE IF i >= 3 /\ s[i] = "\n" /\ s[i - 1] = "\n" /\ s[i - 2] = "\n"
    THEN CollapseNewlines(s, i + 1)
    ELSE <<s[i]>> \o CollapseNewlines(s, i + 1)

\* Lines 146-157
NormalizeLines(s) ==
    LET lines == splitlines(s)
        stripped == JoinNl([i \in 1..Len(lines) |-> Strip(lines[i], Whitespace)])
        kept == JoinNl(SelectSeq(splitlines(stripped), KeepLine))
    IN  CollapseNewlines(kept, 1)

(***************************************************************************)
(* Calls of the line normalisation, over every rendered text of at most    *)
(* MaxChars characters.                                                    *)
(***************************************************************************)
RenderedTexts == UNION {[1..n -> LineChars] : n \in 0..MaxChars}

LinesInit ==
    /\ rendered_text \in RenderedTexts
    /\ returned_text = <<>>
    /\ pc = "normalize"
    /\ tar = <<>>
    /\ processed_ids = {}
    /\ articles = <<>>
    /\ article_id = <<>>
    /\ members = <<>>
    /\ skip = {}
    /\ yielded = <<>>
    /\ contents = <<>>
    /\ full_contents = <<>>
    /\ log = <<>>
    /\ latex = <<>>
    /\ parsed = <<>>
    /\ shard = {}
    /\ MainIdle

\* text = ...; return text
NormalizeText ==
    /\ pc = "normalize"
    /\ returned_text' = NormalizeLines(rendered_text)
    /\ pc' = "normalized"
    /\ UNCHANGED <<tar, processed_ids, articles, article_id, members, skip,
                   yielded, contents, full_contents, log, latex, parsed,
                   rendered_text, shard, shard_ids, shard_pos, current_month,
                   month_dirs, uploads>>

LinesNext == NormalizeText

SpecLines == LinesInit /\ [][LinesNext]_vars

(***************************************************************************)
(* Properties of the line normalisation (checked under SpecLines)          *)
(***************************************************************************)
Normalized == pc = "normalized"

\* The trimmed lines of the rendered text
TrimmedLines ==
    LET lines == splitlines(rendered_text)
    IN  [i \in 1..Len(lines) |-> Strip(lines[i], {" "})]

\* The retention filter, as the specification words it
Retained(l) ==
    \/ l = <<>>
    \/ \E i, j \in 1..Len(l) :
           /\ i < j /\ l[i] # " " /\ l[j] # " "
           /\ \E k \in i..j : l[k] = " "
    \/ (Len(l) >= 1 /\ l[1] = "\\")
    \/ (/\ Len(l) >= 3 /\ l[1] = "[" /\ l[Len(l)] = "]"
        /\ \A i \in 2..(Len(l) - 1) : l[i] = "1")

RetainedLines == SelectSeq(TrimmedLines, Retained)
OutLines == SplitNl(returned_text, 1, <<>>)

NonBlank(lines) == LET Full(l) == l # <<>> IN SelectSeq(lines, Full)
\* For each non-blank line of the sequence, whether a blank line comes
\* directly before it
BlankBefore(lines) ==
    LET at == {i \in 1..Len(lines) : lines[i] # <<>>}
        nth(n) == CHOOSE i \in at : Cardinality({h \in at : h < i}) = n - 1
    IN  [n \in 1..Cardinality(at) |-> nth(n) > 1 /\ lines[nth(n) - 1] = <<>>]

Months == {"1501", "1502"}
ShardIdChoices ==
    {<<"arXiv", "src", "1501", "001">>, <<"arXiv", "src", "1501", "002">>,
     <<"arXiv", "src", "1502", "001">>, <<"arXiv">>}
IdFiles == UNION {[1..n -> ShardIdChoices] : n \in 0..MaxShards}

\* try: shard_id.split("_")[2] ... except IndexError
Parsable(shard_id) == Len(shard_id) >= 3
shard_month(shard_id) == shard_id[3]

\* if current_month and month_dir
HasMonth == current_month # "None"

\* package_and_upload_month(current_month, ...) when the upload succeeds or
\* the directory is empty: an empty directory is left alone, another is
\* packed, uploaded and removed
PackageAndUpload ==
    IF month_dirs[current_month] = {}
    THEN UNCHANGED <<uploads, month_dirs>>
    ELSE /\ uploads' = Append(uploads, [month |-> current_month,
                                        files |-> month_dirs[current_month],
                                        at |-> shard_pos])
         /\ month_dirs' = [month_dirs EXCEPT ![current_month] = {}]

MainInit ==
    /\ shard_ids \in IdFiles
    /\ shard_pos = 1
    /\ current_month = "None"
    /\ month_dirs = [m \in Months |-> {}]
    /\ uploads = <<>>
    /\ pc = "month"
    /\ tar = <<>>
    /\ processed_ids = {}
    /\ articles = <<>>
    /\ article_id = <<>>
    /\ members = <<>>
    /\ skip = {}
    /\ yielded = <<>>
    /\ contents = <<>>
    /\ full_contents = <<>>
    /\ log = <<>>
    /\ latex = <<>>
    /\ parsed = <<>>
    /\ rendered_text = <<>>
    /\ returned_text = <<>>
    /\ shard = {}

InLoop == pc = "month" /\ shard_pos <= Len(shard_ids)

\* except IndexError: ... continue
SkipUnparsable ==
    /\ InLoop
    /\ ~Parsable(shard_ids[shard_pos])
    /\ shard_pos' = shard_pos + 1
    /\ UNCHANGED <<tar, processed_ids, articles, article_id, members, skip,
                   yielded, pc, contents, full_contents, log, latex, parsed,
                   rendered_text, returned_text, shard, shard_ids,
                   current_month, month_dirs, uploads>>

\* shard_month == current_month: straight to process_shard
SameMonth ==
    /\ InLoop
    /\ Parsable(shard_ids[shard_pos])
    /\ shard_month(shard_ids[shard_pos]) = current_month
    /\ pc' = "shard"
    /\ UNCHANGED <<tar, processed_ids, articles, article_id, members, skip,
                   yielded, contents, full_contents, log, latex, parsed,
                   rendered_text, returned_text, shard, shard_ids, shard_pos,
                   current_month, month_dirs, uploads>>

\* shard_month != current_month: the previous month, if any, is packaged
\* and uploaded, then the new month starts
StartMonth ==
    /\ InLoop
    /\ Parsable(shard_ids[shard_pos])
    /\ shard_month(shard_ids[shard_pos]) # current_month
    /\ IF HasMonth THEN PackageAndUpload
       ELSE UNCHANGED <<uploads, month_dirs>>
    /\ current_month' = shard_month(shard_ids[shard_pos])
    /\ pc' = "shard"
    /\ UNCHANGED <<tar, processed_ids, articles, article_id, members, skip,
                   yielded, contents, full_contents, log, latex, parsed,
                   rendered_text, returned_text, shard, shard_ids, shard_pos>>

\* package_and_upload_month: the upload fails, the archive is removed and
\* the program exits (lines 178-184)
UploadFails ==
    /\ pc = "month"
    /\ HasMonth
    /\ \/ shard_pos > Len(shard_ids)
       \/ /\ shard_pos <= Len(shard_ids)
          /\ Parsable(shard_ids[shard_pos])
          /\ shard_month(shard_ids[shard_pos]) # current_month
    /\ month_dirs[current_month] # {}
    /\ pc' = "exited"
    /\ UNCHANGED <<tar, processed_ids, articles, article_id, members, skip,
                   yielded, contents, full_contents, log, latex, parsed,
                   rendered_text, returned_text, shard, shard_ids, shard_pos,
                   current_month, month_dirs, uploads>>

\* process_shard(shard_id, work_dir, month_dir): the shard is downloaded
\* and unpacked, and the .tex files it holds, if any, land in the
\* directory of the month
ProcessShard ==
    /\ pc = "shard"
    /\ \E has_tex \in BOOLEAN :
           month_dirs' = [month_dirs EXCEPT ![current_month] =
                             IF has_tex THEN @ \cup {shard_pos} ELSE @]
    /\ shard_pos' = shard_pos + 1
    /\ pc' = "month"
    /\ UNCHANGED <<tar, processed_ids, articles, article_id, members, skip,
                   yielded, contents, full_contents, log, latex, parsed,
                   rendered_text, returned_text, shard, shard_ids,
                   current_month, uploads>>

\* download_shard_from_s3 fails: sys.exit(1) (lines 60-62)
DownloadFails ==
    /\ pc = "shard"
    /\ pc' = "exited"
    /\ UNCHANGED <<tar, processed_ids, articles, article_id, members, skip,
                   yielded, contents, full_contents, log, latex, parsed,
                   rendered_text, returned_text, shard, shard_ids, shard_pos,
                   current_month, month_dirs, uploads>>

\* after the loop: the very last month is packaged and uploaded
LastMonth ==
    /\ pc = "month"
    /\ shard_pos > Len(shard_ids)
    /\ IF HasMonth THEN PackageAndUpload
       ELSE UNCHANGED <<uploads, month_dirs>>
    /\ pc' = "done"
    /\ UNCHANGED <<tar, processed_ids, articles, article_id, members, skip,
                   yielded, contents, full_contents, log, latex, parsed,
                   rendered_text, returned_text, shard, shard_ids, shard_pos,
                   current_month>>

MainNext ==
    \/ SkipUnparsable
    \/ SameMonth
    \/ StartMonth
    \/ UploadFails
    \/ ProcessShard
    \/ DownloadFails
    \/ LastMonth

SpecMain == MainInit /\ [][MainNext]_vars

(***************************************************************************)
(* Properties of to_hf.main (checked under SpecMain)                       *)
(***************************************************************************)
\* The positions of the id file that hold a shard of the month
ShardsOf(m) ==
    {p \in 1..Len(shard_ids) :
        Parsable(shard_ids[p]) /\ shard_month(shard_ids[p]) = m}

\* C13: whatever the id file lists, no month is uploaded twice, an upload
\* of a month happens only when every shard the file lists for that month
\* has been processed, and when main is done every month whose shards left
\* files has been uploaded.
C13_MonthUploadedOnceComplete ==
    /\ \A i, j \in 1..Len(uploads) :
           uploads[i].month = uploads[j].month => i = j
    /\ \A i \in 1..Len(uploads) :
           \A p \in ShardsOf(uploads[i].month) : p < uploads[i].at
    /\ pc = "done" =>
           \A m \in Months :
               month_dirs[m] = {}

=============================================================================
